---- MODULE Spec2Model ----
(***************************************************************************)
(* Model of crates/headless/src/headless.rs: the DevServer that keeps the  *)
(* map `projects` (RemoteProjectId -> Project handle) in step with the     *)
(* DevServerInstructions pushed by the server, and that resends its shared *)
(* projects (ReconnectDevServer) when the client reconnects.               *)
(*                                                                         *)
(* The tasks are cooperative futures on one foreground thread: a task runs *)
(* without interruption from one `.await` that suspends to the next, so    *)
(* every action below is one such run.                                     *)
(***************************************************************************)
EXTENDS Integers, Sequences, FiniteSets, TLC

\* ---- bounds ----
MaxId == 3              \* remote project ids are 1..MaxId
MaxLen == 2             \* longest `projects` list of one DevServerInstructions
MaxPushes == 2          \* DevServerInstructions messages received
MaxPending == 2         \* of them, handlers that have not returned
MaxRejoins == 1         \* ReconnectDevServer requests sent while messages
                        \* are handled
MaxResyncs == 2         \* ReconnectDevServer requests sent in all

VARIABLES
    projects,       \* DevServer.projects: RemoteProjectId -> handle
    proj,           \* the Project models that are alive, by handle
    nextPid,        \* next project_id the server hands out
    orphans,        \* Project models dropped while they were shared
    passes,         \* the DevServerInstructions messages, in arrival order:
                    \* the last one handled, those in hand, those waiting
    received,       \* number of DevServerInstructions messages received
    status,         \* value held by the client's status watch channel
    unseen,         \* the channel holds a value the receiver has not seen
    spc,            \* where maintain_connection and the task of rejoin are
    firstConnected, \* the status read at line 213 was Connected
    rjProjects,     \* rejoin's local map project_id -> handle
    rjRequest,      \* reshared_projects of the ReconnectDevServer in flight
    rjResponse,     \* ids of reshared_projects in the answer to it
    rjLogged,       \* ids whose Project::reshared failed and was logged
    resyncSent,     \* ReconnectDevServer requests sent
    everConnected,  \* the client has been Connected at some time
    reconnects,     \* times the status became Connected after an earlier
                    \* Connected (counted up to MaxRejoins)
    connectPc,      \* the task of init that calls authenticate_and_connect
    quit,           \* who has called cx.quit()
    shutdownSent,   \* app_will_quit has sent ShutdownDevServer
    owned,          \* the application holds its handle to the DevServer
                    \* (the global set at line 36)
    alive,          \* the DevServer model has not been released
    streamOpen      \* the sender of the status channel has not been dropped

mapVars == <<projects, proj, nextPid, orphans>>
passVars == <<passes, received>>
statusVars == <<status, unseen, everConnected, reconnects>>
supVars == <<spc, firstConnected, resyncSent>>
rjVars == <<rjProjects, rjRequest, rjResponse, rjLogged>>
lifeVars == <<connectPc, quit, shutdownSent, owned, alive, streamOpen>>
vars == <<mapVars, passVars, statusVars, supVars, rjVars, lifeVars>>

Ids == 1..MaxId
\* client::Status as far as is_connected tells its values apart
Statuses == {"Connected", "ConnectionLost"}
PushLists == UNION {[1..n -> Ids] : n \in 0..MaxLen}

Range(s) == {s[i] : i \in DOMAIN s}
\* The orders in which the elements of a set can be met (the iteration order
\* of a HashMap is arbitrary).
Orders(S) ==
    {o \in [1..Cardinality(S) -> S] : \A i, j \in DOMAIN o : i # j => o[i] # o[j]}
EmptyMap == [k \in {} |-> 0]
Insert(m, k, v) == [x \in (DOMAIN m) \cup {k} |-> IF x = k THEN v ELSE m[x]]
Remove(m, k) == [x \in (DOMAIN m) \ {k} |-> m[x]]

is_connected(s) == s = "Connected"

\* ---- Model<Project> handles ----
\* A new model gets the smallest handle that is free.
NewHandle(pr) == CHOOSE h \in 1..(Cardinality(DOMAIN pr) + 1) : h \notin DOMAIN pr

\* The handles held by the map, by a rejoin in flight and by the handlers.
Held(m, local, ps) ==
    Range(m) \cup Range(local)
        \cup {ps[k].cur : k \in {i \in DOMAIN ps : ps[i].pc \in {"indexing", "rpc"}}}

\* A model no handle refers to is released.
Alive(pr, m, local, ps) ==
    [h \in (DOMAIN pr) \cap Held(m, local, ps) |-> pr[h]]

Orphaned(pr, m, local, ps) ==
    Cardinality({h \in (DOMAIN pr) \ Held(m, local, ps) : pr[h].st = "shared"})

\* ---- Project (the calls DevServer makes on a project model) ----
ProjectLocal(id) == [rid |-> id, pid |-> 0, st |-> "local", reshared |-> FALSE]
ProjectShared(p, project_id) == [p EXCEPT !.pid = project_id, !.st = "shared"]
ProjectUnshare(p) == [p EXCEPT !.pid = 0, !.st = "unshared"]
ProjectReshared(p) == [p EXCEPT !.reshared = TRUE]
remote_id(p) == p.pid

\* ---- handle_dev_server_instructions: the diff ----
\* removed_projects with the negation of the filter lost.
removed_projects_kept(m, push) ==
    {k \in DOMAIN m : \E i \in DOMAIN push : push[i] = k}

removed_projects(m, push) ==
    {k \in DOMAIN m : ~(\E i \in DOMAIN push : push[i] = k)}

\* Absent with the contains_key test lost.
Absent_any(m, id) == TRUE

Absent(m, id) == id \notin DOMAIN m

added_projects(m, push) ==
    SelectSeq(push, LAMBDA id : Absent(m, id))

\* ---- unshare_project ----
\* unshare_project with an id that is not tracked reported as an error.
unshare_project_strict(s, id, fails) ==
    IF id \in DOMAIN s.projects
    THEN [projects |-> Remove(s.projects, id),
          proj |-> IF fails THEN s.proj
                   ELSE [s.proj EXCEPT ![s.projects[id]] = ProjectUnshare(@)],
          ok |-> ~fails]
    ELSE [s EXCEPT !.ok = FALSE]

\* unshare_project with the project left in the map.
unshare_project_kept(s, id, fails) ==
    IF id \in DOMAIN s.projects
    THEN [projects |-> s.projects,
          proj |-> IF fails THEN s.proj
                   ELSE [s.proj EXCEPT ![s.projects[id]] = ProjectUnshare(@)],
          ok |-> ~fails]
    ELSE s

\* Lines 151-160: the entry is taken out of the map (line 156) and then
\* Project::unshare is called on the project (line 157); `fails` says that
\* this call returns an error, which leaves the project shared, and `ok` is
\* FALSE when unshare_project returns an error.
unshare_project(s, id, fails) ==
    IF id \in DOMAIN s.projects
    THEN [projects |-> Remove(s.projects, id),
          proj |-> IF fails THEN s.proj
                   ELSE [s.proj EXCEPT ![s.projects[id]] = ProjectUnshare(@)],
          ok |-> ~fails]
    ELSE s

RECURSIVE UnshareEach(_, _, _)
\* Lines 143-145: the ids in the order of removed_projects_ids, up to the
\* first error.
UnshareEach(s, order, failing) ==
    IF order = <<>> \/ ~s.ok THEN s
    ELSE UnshareEach(unshare_project(s, Head(order), Head(order) \in failing),
                     Tail(order), failing)

\* ---- the passes ----
Finished(p) == p.pc \in {"ok", "err"}
Started(p) == p.pc # "queued"
Active(p) == Started(p) /\ ~Finished(p)

\* A handler is in the middle of a run (it has not reached its next await).
Running == \E k \in DOMAIN passes : passes[k].pc = "loop"

\* CanStart when the client spawns every handler as its message arrives.
CanStart_spawned(k) == TRUE

\* The client hands a message to its handler when the handlers of the
\* messages before it have returned.
CanStart(k) == \A j \in 1..(k - 1) : Finished(passes[j])

\* Lines 138-140: the loop over added_projects has run to its end.
AddsDone(p) == p.idx > Len(p.added)

\* RemovalsDue when the removals do not wait for the loop over added_projects.
RemovalsDue_early(p) == TRUE

\* Lines 138-142: the removals come after the loop over added_projects.
RemovalsDue(p) == AddsDone(p)

\* The handler of passes[k] returns, leaving the record r: the records of the
\* handlers that returned before it are dropped.
Retire(ps, k, r) ==
    <<[r EXCEPT !.cur = 0, !.start = EmptyMap]>>
        \o SelectSeq(SubSeq(ps, 1, k - 1) \o SubSeq(ps, k + 1, Len(ps)),
                     LAMBDA q : ~Finished(q))

\* A DevServerInstructions message arrives.
Push(list) ==
    /\ ~Running
    /\ received < MaxPushes
    /\ Cardinality({k \in DOMAIN passes : ~Finished(passes[k])}) < MaxPending
    /\ received' = received + 1
    /\ passes' = Append(passes,
            [push |-> list, pc |-> "queued", added |-> <<>>, removed |-> {},
             idx |-> 1, cur |-> 0, err |-> "none",
             start |-> EmptyMap, rpcs |-> <<>>, unshares |-> {}])
    /\ UNCHANGED <<mapVars, statusVars, supVars, rjVars, lifeVars>>

\* Lines 114-136: the handler starts and computes both diffs.
Start(k) ==
    /\ ~Running
    /\ passes[k].pc = "queued"
    /\ CanStart(k)
    /\ passes' = [passes EXCEPT
            ![k].pc = "loop",
            ![k].added = added_projects(projects, passes[k].push),
            ![k].removed = removed_projects(projects, passes[k].push),
            ![k].start = projects]
    /\ UNCHANGED <<mapVars, received, statusVars, supVars, rjVars, lifeVars>>

\* Lines 138-139, 167-184: the next added project; share_project creates the
\* Project model and awaits find_or_create_local_worktree.
ShareBegin(k) ==
    /\ passes[k].pc = "loop"
    /\ ~AddsDone(passes[k])
    /\ proj' = Insert(proj, NewHandle(proj),
                       ProjectLocal(passes[k].added[passes[k].idx]))
    /\ passes' = [passes EXCEPT ![k].pc = "indexing", ![k].cur = NewHandle(proj)]
    /\ UNCHANGED <<projects, nextPid, orphans, received, statusVars, supVars,
                   rjVars, lifeVars>>

\* Lines 184-194: the worktree is ready, or creating it failed.
IndexingDone(k, ok) ==
    /\ ~Running
    /\ passes[k].pc = "indexing"
    /\ passes' = IF ok
                 THEN [passes EXCEPT ![k].pc = "rpc",
                          ![k].rpcs = Append(@, passes[k].added[passes[k].idx])]
                 ELSE Retire(passes, k,
                          [passes[k] EXCEPT !.pc = "err", !.err = "indexing"])
    /\ proj' = Alive(proj, projects, rjProjects, passes')
    /\ UNCHANGED <<projects, nextPid, orphans, received, statusVars, supVars,
                   rjVars, lifeVars>>

\* share_insert with the insert done before the answer is looked at.
share_insert_always(m, id, h, ok) == Insert(m, id, h)

\* Lines 194-201: the map after the answer; an error returns before the insert.
share_insert(m, id, h, ok) == IF ok THEN Insert(m, id, h) ELSE m

\* Lines 194-202: the answer to ShareRemoteProject.
ShareResponse(k, ok) ==
    /\ ~Running
    /\ passes[k].pc = "rpc"
    /\ IF ok
       THEN LET shared == [proj EXCEPT ![passes[k].cur] =
                                           ProjectShared(@, nextPid)]
            IN /\ nextPid' = nextPid + 1
               /\ projects' = share_insert(projects,
                        passes[k].added[passes[k].idx], passes[k].cur, TRUE)
               /\ passes' = [passes EXCEPT ![k].pc = "loop", ![k].idx = @ + 1]
               /\ proj' = Alive(shared, projects', rjProjects, passes')
               /\ orphans' = orphans
                        + Orphaned(shared, projects', rjProjects, passes')
       ELSE /\ passes' = Retire(passes, k,
                          [passes[k] EXCEPT !.pc = "err", !.err = "rpc"])
            /\ projects' = share_insert(projects,
                        passes[k].added[passes[k].idx], passes[k].cur, FALSE)
            /\ proj' = Alive(proj, projects', rjProjects, passes')
            /\ UNCHANGED <<nextPid, orphans>>
    /\ UNCHANGED <<received, statusVars, supVars, rjVars, lifeVars>>

\* Lines 142-148: the removals, in one update of the DevServer. `order` is
\* the order of removed_projects_ids (that of the keys of the map at lines
\* 115-126) and `failing` the ids whose Project::unshare returns an error. An
\* error ends the handler; the project taken out of the map is dropped.
Unshare(k, order, failing) ==
    /\ passes[k].pc = "loop"
    /\ RemovalsDue(passes[k])
    /\ order \in Orders(passes[k].removed)
    /\ failing \subseteq passes[k].removed
    /\ LET s == UnshareEach([projects |-> projects, proj |-> proj, ok |-> TRUE],
                            order, failing)
       IN /\ projects' = s.projects
          /\ passes' = Retire(passes, k, [passes[k] EXCEPT
                  !.pc = IF s.ok THEN "ok" ELSE "err",
                  !.err = IF s.ok THEN "none" ELSE "unshare",
                  !.unshares = (DOMAIN projects) \ (DOMAIN s.projects)])
          /\ proj' = Alive(s.proj, projects', rjProjects, passes')
          /\ orphans' = orphans
                  + Orphaned(s.proj, projects', rjProjects, passes')
    /\ UNCHANGED <<nextPid, received, statusVars, supVars, rjVars, lifeVars>>

\* ---- the client status (a watch channel: the receiver sees the latest
\* value, once, when it has changed since it last looked) ----
StatusChange(s) ==
    /\ ~Running
    /\ spc # "init"
    /\ streamOpen
    /\ s # status
    /\ status' = s
    /\ unseen' = TRUE
    /\ everConnected' = (everConnected \/ s = "Connected")
    /\ reconnects' = IF s = "Connected" /\ everConnected /\ reconnects < MaxRejoins
                     THEN reconnects + 1 ELSE reconnects
    /\ UNCHANGED <<mapVars, passVars, supVars, rjVars, lifeVars>>

\* The sender of the status channel is dropped: a receiver that has seen the
\* last value gets None.
StreamClose ==
    /\ ~Running
    /\ spc # "init"
    /\ streamOpen
    /\ streamOpen' = FALSE
    /\ UNCHANGED <<mapVars, passVars, statusVars, supVars, rjVars, connectPc,
                   quit, shutdownSent, owned, alive>>

\* ---- rejoin ----
RECURSIVE reshared_projects(_, _, _)
\* Lines 238-250: one UpdateProject per entry of `projects` whose model has
\* a remote id; `order` is the order in which the iterator of the map gives
\* its keys.
reshared_projects(m, pr, order) ==
    IF order = <<>> THEN <<>>
    ELSE LET id == Head(order)
             rest == reshared_projects(m, pr, Tail(order))
         IN IF remote_id(pr[m[id]]) # 0
            THEN <<remote_id(pr[m[id]])>> \o rest
            ELSE rest

\* Lines 236, 244: the local map project_id -> handle.
rejoin_projects(m, pr) ==
    LET hs == {m[id] : id \in {x \in DOMAIN m : remote_id(pr[m[x]]) # 0}}
    IN [p \in {remote_id(pr[h]) : h \in hs} |->
            CHOOSE h \in hs : remote_id(pr[h]) = p]

\* Marked when the response is not consulted.
Marked_all(local, resp, failing) == DOMAIN local

\* Marked when the first Project::reshared that fails ends the loop.
Marked_stop(local, resp, failing) ==
    {p \in resp \cap DOMAIN local : \A q \in failing : p < q}

\* Marked when an id that is not in the local map is applied to every project.
Marked_fresh(local, resp, failing) ==
    IF resp \subseteq DOMAIN local
    THEN (resp \cap DOMAIN local) \ failing
    ELSE (DOMAIN local) \ failing

\* Lines 255-261: the models the response marks reshared.
Marked(local, resp, failing) == (resp \cap DOMAIN local) \ failing

\* Lines 256-259: the calls of Project::reshared that fail, each one logged.
Logged(local, resp, failing) == resp \cap (DOMAIN local) \cap failing

\* ---- maintain_connection ----
\* Lines 214-217: after a Connected start the first change is waited for.
AfterStart(s) == IF is_connected(s) THEN "wait_first" ELSE "loop"

\* Lines 227-229: only a Connected status goes on to rejoin.
ShouldRejoin(s) == is_connected(s)

\* Upgraded with the test of lines 223-225 lost.
Upgraded_always(a) == TRUE

\* Lines 223-225: this.upgrade() gives the DevServer while a handle to it is
\* held; the one maintain_connection took in the turn before is dropped when
\* that turn of the loop ends, so what is left is the application's.
Upgraded(a) == a

\* Lines 223, 231: the handle that upgrade gave is held across the await of
\* the task of rejoin, to the end of that turn of the loop.
SupHolds(pc) == pc \in {"rejoin", "rejoin_ok", "rejoin_err"}

\* Lines 220-222: where the recv of line 220 leaves maintain_connection when
\* there is no value to see: suspended while the channel is open, returning
\* Ok on the None of a closed channel.
NextRecv(open) == IF open THEN "loop" ELSE "done"

\* Line 20: dropping the Task cancels a maintain_connection that has not
\* returned.
Cancelled(pc) == IF pc \in {"done", "err"} THEN pc ELSE "cancelled"

\* AtRecv when the status is also received while the task of rejoin runs.
AtRecv_any(pc) == pc \in {"loop", "rejoin"}

\* Lines 220, 231: maintain_connection receives a status only in the recv of
\* line 220, which it reaches when the task of rejoin has ended.
AtRecv(pc) == pc = "loop"

\* SupStart without lines 212-217: the loop is entered with the value that is
\* there still to be received.
SupStart_eager ==
    /\ ~Running
    /\ spc = "init"
    /\ firstConnected' = (status = "Connected")
    /\ spc' = "loop"
    /\ UNCHANGED <<mapVars, passVars, status, unseen, everConnected,
                   reconnects, resyncSent, rjVars, lifeVars>>

\* Lines 210-217: try_recv takes the value that is there, borrow reads it.
SupStart ==
    /\ ~Running
    /\ spc = "init"
    /\ unseen' = FALSE
    /\ firstConnected' = (status = "Connected")
    /\ spc' = AfterStart(status)
    /\ UNCHANGED <<mapVars, passVars, status, everConnected,
                   reconnects, resyncSent, rjVars, lifeVars>>

\* Line 216: the first change after a Connected start is dropped, and so is
\* the None of a closed channel.
SupFirstRecv ==
    /\ ~Running
    /\ spc = "wait_first"
    /\ unseen \/ ~streamOpen
    /\ unseen' = FALSE
    /\ spc' = NextRecv(streamOpen)
    /\ UNCHANGED <<mapVars, passVars, status, everConnected,
                   reconnects, firstConnected, resyncSent, rjVars, lifeVars>>

\* maintain_connection goes to pc with no rejoin in hand and no handle to
\* the DevServer.
SupGoto(pc) ==
    /\ spc' = pc
    /\ rjProjects' = EmptyMap
    /\ rjRequest' = <<>>
    /\ rjResponse' = {}
    /\ rjLogged' = {}
    /\ proj' = Alive(proj, projects, EmptyMap, passes)
    /\ orphans' = orphans + Orphaned(proj, projects, EmptyMap, passes)
    /\ UNCHANGED <<projects, nextPid, resyncSent>>

\* Lines 220-231 and 235-251: one turn of the loop on a changed status.
LoopBody ==
    /\ unseen' = FALSE
    /\ IF ~Upgraded(owned)
       THEN SupGoto("done")
       ELSE IF ShouldRejoin(status)
       THEN /\ resyncSent < MaxResyncs
            /\ rjProjects' = rejoin_projects(projects, proj)
            /\ \E order \in Orders(DOMAIN projects) :
                  rjRequest' = reshared_projects(projects, proj, order)
            /\ rjResponse' = {}
            /\ rjLogged' = {}
            /\ resyncSent' = resyncSent + 1
            /\ spc' = "rejoin"
            /\ proj' = Alive(proj, projects, rjProjects', passes)
            /\ orphans' = orphans
                    + Orphaned(proj, projects, rjProjects', passes)
            /\ UNCHANGED <<projects, nextPid>>
       ELSE SupGoto(NextRecv(streamOpen))

\* Lines 220-222: recv gives the changed status, or None when the channel is
\* closed and there is no value left to see.
SupRecv ==
    /\ ~Running
    /\ AtRecv(spc)
    /\ unseen \/ ~streamOpen
    /\ IF unseen
       THEN LoopBody
       ELSE SupGoto("done") /\ UNCHANGED unseen
    /\ UNCHANGED <<passVars, status, everConnected, reconnects,
                   firstConnected, lifeVars>>

\* Lines 252-263: the answer to ReconnectDevServer; `failing` are the ids
\* whose Project::reshared returns an error, which is logged. The task ends
\* and its map `projects` is dropped with it.
RejoinResponse(resp, failing) ==
    /\ ~Running
    /\ spc = "rejoin"
    /\ LET marked == [h \in DOMAIN proj |->
               IF \E p \in Marked(rjProjects, resp, failing) : rjProjects[p] = h
               THEN ProjectReshared(proj[h]) ELSE proj[h]]
       IN /\ proj' = Alive(marked, projects, EmptyMap, passes)
          /\ orphans' = orphans + Orphaned(marked, projects, EmptyMap, passes)
    /\ rjProjects' = EmptyMap
    /\ rjResponse' = resp
    /\ rjLogged' = Logged(rjProjects, resp, failing)
    /\ spc' = "rejoin_ok"
    /\ rjRequest' = <<>>
    /\ UNCHANGED <<projects, nextPid, passVars, statusVars,
                   firstConnected, resyncSent, lifeVars>>

\* Lines 252-253: the request failed; the task ends with the error and its
\* map `projects` is dropped with it.
RejoinError ==
    /\ ~Running
    /\ spc = "rejoin"
    /\ spc' = "rejoin_err"
    /\ rjProjects' = EmptyMap
    /\ proj' = Alive(proj, projects, EmptyMap, passes)
    /\ orphans' = orphans + Orphaned(proj, projects, EmptyMap, passes)
    /\ rjRequest' = <<>>
    /\ UNCHANGED <<projects, nextPid, passVars, statusVars, firstConnected,
                   resyncSent, rjResponse, rjLogged, lifeVars>>

\* Line 231: the task of rejoin has ended; an error ends maintain_connection,
\* otherwise the turn of the loop ends, the handle of line 223 is dropped and
\* the loop goes on, at once when a changed status is waiting. A DevServer
\* left without a handle is still there when this run ends: it is released
\* afterwards (Release).
SupAfterRejoin ==
    /\ ~Running
    /\ spc \in {"rejoin_ok", "rejoin_err"}
    /\ IF spc = "rejoin_err"
       THEN SupGoto("err") /\ UNCHANGED unseen
       ELSE IF unseen
       THEN LoopBody
       ELSE SupGoto(NextRecv(streamOpen)) /\ UNCHANGED unseen
    /\ UNCHANGED <<passVars, status, everConnected, reconnects,
                   firstConnected, lifeVars>>

\* ---- init: connect, interrupt, quit ----
\* connect_quit when a failed connect is only logged.
connect_quit_never(q, ok) == q

\* Lines 51-59: only a failed authenticate_and_connect calls cx.quit().
connect_quit(q, ok) == IF ok THEN q ELSE q \cup {"connect"}

\* Lines 18, 20: the DevServer is released: its map `projects` is dropped,
\* and so is the Task in _maintain_connection, which cancels a
\* maintain_connection that has not returned.
DropDevServer ==
    /\ alive' = FALSE
    /\ spc' = Cancelled(spc)
    /\ projects' = EmptyMap
    /\ proj' = Alive(proj, projects', rjProjects, passes)
    /\ orphans' = orphans + Orphaned(proj, projects', rjProjects, passes)
    /\ UNCHANGED nextPid

\* No handle to the DevServer is left: the application has dropped its own,
\* maintain_connection holds none and no handler is in hand.
Unreferenced ==
    /\ alive
    /\ ~owned
    /\ ~SupHolds(spc)
    /\ \A k \in DOMAIN passes : ~Active(passes[k])

\* Lines 45, 57: cx.update ends by releasing the models that no handle
\* refers to.
Flush ==
    IF Unreferenced THEN DropDevServer ELSE UNCHANGED <<mapVars, spc, alive>>

\* Lines 50-61: authenticate_and_connect returns; a failure calls cx.quit()
\* inside cx.update (line 57).
ConnectDone(ok) ==
    /\ ~Running
    /\ connectPc = "pending"
    /\ connectPc' = IF ok THEN "ok" ELSE "failed"
    /\ quit' = connect_quit(quit, ok)
    /\ IF ok THEN UNCHANGED <<mapVars, spc, alive>> ELSE Flush
    /\ UNCHANGED <<passVars, statusVars, firstConnected, resyncSent, rjVars,
                   shutdownSent, owned, streamOpen>>

\* Lines 39-47: the interrupt signal arrives and the task calls cx.quit()
\* inside cx.update (line 45).
Interrupt ==
    /\ ~Running
    /\ "interrupt" \notin quit
    /\ quit' = quit \cup {"interrupt"}
    /\ Flush
    /\ UNCHANGED <<passVars, statusVars, firstConnected, resyncSent, rjVars,
                   connectPc, shutdownSent, owned, streamOpen>>

\* Lines 83, 101-106: the application quits and app_will_quit sends
\* ShutdownDevServer.
AppWillQuit ==
    /\ ~Running
    /\ quit # {}
    /\ ~shutdownSent
    /\ shutdownSent' = TRUE
    /\ UNCHANGED <<mapVars, passVars, statusVars, supVars, rjVars,
                   connectPc, quit, owned, alive, streamOpen>>

\* Lines 20, 36, 223: the application has quit and drops its handle to the
\* DevServer, at a time when no handler holds one. While maintain_connection
\* holds the handle of line 223 the DevServer lives on; otherwise it is
\* released.
Teardown ==
    /\ \A k \in DOMAIN passes : ~Active(passes[k])
    /\ shutdownSent
    /\ owned
    /\ owned' = FALSE
    /\ IF SupHolds(spc)
       THEN UNCHANGED <<mapVars, spc, alive>>
       ELSE DropDevServer
    /\ UNCHANGED <<passVars, statusVars, firstConnected, resyncSent, rjVars,
                   connectPc, quit, shutdownSent, streamOpen>>

\* Lines 20, 223-232: the handle of line 223 was the last one and
\* maintain_connection has dropped it at the end of a turn of its loop; the
\* DevServer is released after that run, when the application next releases
\* the models that no handle refers to.
Release ==
    /\ Unreferenced
    /\ DropDevServer
    /\ UNCHANGED <<passVars, statusVars, firstConnected, resyncSent, rjVars,
                   connectPc, quit, shutdownSent, owned, streamOpen>>

Init ==
    /\ projects = EmptyMap
    /\ proj = EmptyMap
    /\ nextPid = 1
    /\ orphans = 0
    /\ passes = <<>>
    /\ received = 0
    /\ status \in Statuses
    /\ everConnected \in BOOLEAN
    /\ status = "Connected" => everConnected
    /\ reconnects = 0
    /\ unseen = TRUE
    /\ spc = "init"
    /\ firstConnected = FALSE
    /\ resyncSent = 0
    /\ rjProjects = EmptyMap
    /\ rjRequest = <<>>
    /\ rjResponse = {}
    /\ rjLogged = {}
    /\ connectPc = "pending"
    /\ quit = {}
    /\ shutdownSent = FALSE
    /\ owned = TRUE
    /\ alive = TRUE
    /\ streamOpen = TRUE

\* DevServerInstructions whose list names each project once, by ascending id.
SetLists == {l \in PushLists : \A i, j \in DOMAIN l : i < j => l[i] < l[j]}

\* The steps of the handlers; unshareFails says whether Project::unshare is
\* let return an error.
HandlerStep(unshareFails) ==
    \/ \E k \in DOMAIN passes : Start(k)
    \/ \E k \in DOMAIN passes : ShareBegin(k)
    \/ \E k \in DOMAIN passes, ok \in BOOLEAN : IndexingDone(k, ok)
    \/ \E k \in DOMAIN passes, ok \in BOOLEAN : ShareResponse(k, ok)
    \/ \E k \in DOMAIN passes :
          \E order \in Orders(passes[k].removed) :
             \E failing \in IF unshareFails THEN SUBSET passes[k].removed
                                              ELSE {{}} :
                Unshare(k, order, failing)

\* The reconciliation of pushed instructions alone, over every list.
NextPush ==
    \/ \E list \in PushLists : Push(list)
    \/ HandlerStep(TRUE)

SpecPush == Init /\ [][NextPush]_vars

\* The ids of the response: ids of the request and an id the server has not
\* handed out before.
Responses == SUBSET ((DOMAIN rjProjects) \cup {nextPid})

\* Reconciliation together with the connection supervisor and rejoin, for
\* lists without repeated ids and calls of Project::unshare that succeed.
Next ==
    \/ \E list \in SetLists : Push(list)
    \/ HandlerStep(FALSE)
    \/ \E s \in Statuses : StatusChange(s)
    \/ SupStart
    \/ SupFirstRecv
    \/ SupRecv /\ resyncSent' <= MaxRejoins
    \/ \E resp \in Responses :
          \E failing \in SUBSET (resp \cap DOMAIN rjProjects) :
             RejoinResponse(resp, failing)
    \/ RejoinError
    \/ SupAfterRejoin /\ resyncSent' <= MaxRejoins

Spec == Init /\ [][Next]_vars

\* The lifecycle of the process: connect, interrupt, quit, the status channel
\* and the connection supervisor, with no DevServerInstructions.
NextLife ==
    \/ \E ok \in BOOLEAN : ConnectDone(ok)
    \/ Interrupt
    \/ AppWillQuit
    \/ Teardown
    \/ Release
    \/ StreamClose
    \/ \E s \in Statuses : StatusChange(s)
    \/ SupStart
    \/ SupFirstRecv
    \/ SupRecv
    \/ \E resp \in Responses :
          \E failing \in SUBSET (resp \cap DOMAIN rjProjects) :
             RejoinResponse(resp, failing)
    \/ RejoinError
    \/ SupAfterRejoin

SpecLife == Init /\ [][NextLife]_vars

\* The tasks are polled when they can run.
SpecLifeFair ==
    /\ SpecLife
    /\ WF_vars(SupStart)
    /\ WF_vars(SupFirstRecv)
    /\ WF_vars(SupRecv)
    /\ WF_vars(SupAfterRejoin)

\* The removals of lines 142-147 on their own: a handler that has no project
\* left to add holds a list of ids to remove, computed at lines 115-126
\* before its awaits, and the map tracks any set of shared projects.
InitUnshare ==
    \E tracked \in SUBSET Ids, ids \in SUBSET Ids :
        /\ projects = [id \in tracked |-> id]
        /\ proj = [h \in tracked |-> ProjectShared(ProjectLocal(h), h)]
        /\ nextPid = MaxId + 1
        /\ orphans = 0
        /\ passes = <<[push |-> <<>>, pc |-> "loop", added |-> <<>>,
                       removed |-> ids, idx |-> 1, cur |-> 0, err |-> "none",
                       start |-> EmptyMap, rpcs |-> <<>>, unshares |-> {}]>>
        /\ received = 1
        /\ status = "ConnectionLost"
        /\ everConnected = FALSE
        /\ reconnects = 0
        /\ unseen = TRUE
        /\ spc = "init"
        /\ firstConnected = FALSE
        /\ resyncSent = 0
        /\ rjProjects = EmptyMap
        /\ rjRequest = <<>>
        /\ rjResponse = {}
        /\ rjLogged = {}
        /\ connectPc = "pending"
        /\ quit = {}
        /\ shutdownSent = FALSE
        /\ owned = TRUE
        /\ alive = TRUE
        /\ streamOpen = TRUE

NextUnshare ==
    \E k \in DOMAIN passes :
        \E order \in Orders(passes[k].removed) :
           \E failing \in SUBSET passes[k].removed :
              Unshare(k, order, failing)

SpecUnshare == InitUnshare /\ [][NextUnshare]_vars

\* ======================= reconciliation (SpecPush) =======================
\* No handler other than passes[k] has started and not been dropped.
Latest(k) == \A j \in DOMAIN passes : j # k => ~Started(passes[j])

\* C1 (diff correctness): when a pass has returned Ok and no later pass has
\* started, the keys of `projects` are exactly the ids its message listed.
C1_DiffCorrect ==
    \A k \in DOMAIN passes :
        (passes[k].pc = "ok" /\ Latest(k))
            => DOMAIN projects = Range(passes[k].push)

\* A pass that both added and removed projects has returned Ok.
C1_Witness ==
    \E k \in DOMAIN passes :
        /\ passes[k].pc = "ok" /\ Latest(k)
        /\ passes[k].rpcs # <<>>
        /\ passes[k].unshares # {}
        /\ DOMAIN projects = Range(passes[k].push)

\* C2 (idempotence): a pass for the same set of ids as the pass before it,
\* which returned Ok, computes two empty diffs and leaves the map as it found
\* it; and a pass with two empty diffs sends no ShareRemoteProject and
\* unshares nothing.
C2_Idempotent ==
    \A k \in DOMAIN passes :
        Started(passes[k]) =>
            /\ (/\ k > 1
                /\ passes[k - 1].pc = "ok"
                /\ Range(passes[k].push) = Range(passes[k - 1].push)
                /\ ~Finished(passes[k]))
                  => /\ passes[k].added = <<>>
                     /\ passes[k].removed = {}
                     /\ projects = passes[k].start
            /\ (passes[k].added = <<>> /\ passes[k].removed = {})
                  => /\ passes[k].rpcs = <<>>
                     /\ passes[k].unshares = {}

\* The second pass for a non-empty set is in hand after the first returned Ok.
C2_Witness ==
    \E k \in DOMAIN passes :
        /\ k > 1
        /\ passes[k - 1].pc = "ok"
        /\ passes[k - 1].rpcs # <<>>
        /\ Range(passes[k].push) = Range(passes[k - 1].push)
        /\ passes[k].pc = "loop"
        /\ passes[k].added = <<>>

\* C3 (add before remove): a step that takes a key out of `projects` is
\* taken by a pass that is removing it, and every project that pass had to
\* add is in `projects` before the step.
C3_AddBeforeRemove ==
    [][\A id \in DOMAIN projects :
          id \notin DOMAIN projects' =>
              \E k \in DOMAIN passes :
                  /\ passes[k].pc = "loop"
                  /\ id \in passes[k].removed
                  /\ Range(passes[k].added) \subseteq DOMAIN projects]_vars

\* A pass has added all it had to add and has yet to remove: both the added
\* and the projects to remove are tracked.
C3_Witness ==
    \E k \in DOMAIN passes :
        /\ passes[k].pc = "loop"
        /\ AddsDone(passes[k])
        /\ passes[k].added # <<>>
        /\ passes[k].removed # {}
        /\ passes[k].removed \subseteq DOMAIN projects
        /\ Range(passes[k].added) \subseteq DOMAIN projects

\* C8 (one pass at a time, in arrival order): a pass has started only when
\* every pass for an earlier message has returned.
C8_Serial ==
    \A j, k \in DOMAIN passes :
        (j < k /\ Started(passes[k])) => Finished(passes[j])

\* A later message waits while the pass before it awaits its RPC.
C8_Witness ==
    \E k \in DOMAIN passes :
        /\ k > 1
        /\ passes[k - 1].pc = "rpc"
        /\ passes[k].pc = "queued"

\* C9, as claimed: a pass that has returned has attempted every project it
\* had to add and has removed every project it had to remove.
C9_SiblingsSurvive ==
    \A k \in DOMAIN passes :
        Finished(passes[k]) =>
            /\ passes[k].idx >= Len(passes[k].added)
            /\ passes[k].unshares = passes[k].removed

FailedRpc(p) == p.pc = "err" /\ p.err = "rpc"
FailedId(p) == p.added[p.idx]
AddedBefore(p) == {p.added[i] : i \in 1..(p.idx - 1)}

\* C10, as claimed: the pass after one whose ShareRemoteProject failed for an
\* id, whose message still lists the id, has sent a ShareRemoteProject for it
\* when it returns.
C10_NextPushReissues ==
    [][\A k \in DOMAIN passes :
          (/\ k > 1
           /\ FailedRpc(passes[k - 1])
           /\ FailedId(passes[k - 1]) \notin AddedBefore(passes[k - 1])
           /\ FailedId(passes[k - 1]) \in Range(passes[k].push)
           /\ Active(passes[k])
           /\ Finished(passes'[1])
           /\ passes'[1] # passes[1])
              => FailedId(passes[k - 1]) \in Range(passes'[1].rpcs)]_vars

\* C10, amended: a pass whose ShareRemoteProject failed has returned the
\* error, has sent one request for each entry up to the failed one and none
\* after; the projects it added before are tracked and the failed id is not
\* (unless an earlier entry of the same list added it); and the next pass
\* whose message lists the id has it among its added_projects.
C10_FailedShare ==
    \A k \in DOMAIN passes :
        /\ (FailedRpc(passes[k]) /\ Latest(k)) =>
              /\ Len(passes[k].rpcs) = passes[k].idx
              /\ AddedBefore(passes[k]) \subseteq DOMAIN projects
              /\ FailedId(passes[k]) \notin AddedBefore(passes[k])
                    => FailedId(passes[k]) \notin DOMAIN projects
        /\ (/\ k > 1
            /\ FailedRpc(passes[k - 1])
            /\ FailedId(passes[k - 1]) \notin AddedBefore(passes[k - 1])
            /\ Active(passes[k])
            /\ FailedId(passes[k - 1]) \in Range(passes[k].push))
              => FailedId(passes[k - 1]) \in Range(passes[k].added)

\* After a pass failed on its second entry, having added the first, the next
\* pass has sent the request for the failed id again.
C10_Witness ==
    \E k \in DOMAIN passes :
        /\ k > 1
        /\ FailedRpc(passes[k - 1])
        /\ passes[k - 1].idx = 2
        /\ passes[k - 1].added[1] \in DOMAIN projects
        /\ passes[k].pc = "rpc"
        /\ passes[k].added[passes[k].idx] = FailedId(passes[k - 1])

\* ================== connection supervisor, rejoin (Spec) ==================
\* C4 (first connect is not a reconnect): when the first status read was
\* Connected, there are no more ReconnectDevServer requests than times the
\* status came back to Connected.
C4_FirstConnected ==
    firstConnected => resyncSent <= reconnects

\* After a Connected start, a reconnect, and the request it set off.
C4_Witness ==
    firstConnected /\ reconnects = 1 /\ resyncSent = 1 /\ spc = "rejoin"

\* C5, as claimed: whatever the first status read, there are no more
\* ReconnectDevServer requests than times the status came back to Connected
\* after an earlier Connected.
C5_NeverOnFirstConnect ==
    resyncSent <= reconnects

\* C6 (partial resync): the answer to ReconnectDevServer leaves `projects`
\* as it is, and leaves as it is every tracked project whose project id the
\* response does not list; no step of maintain_connection or rejoin changes
\* `projects`.
C6_PartialResync ==
    [][/\ spc' # spc => projects' = projects
       /\ (spc = "rejoin" /\ spc' = "rejoin_ok") =>
          \A resp \in Responses :
             \A failing \in SUBSET (resp \cap DOMAIN rjProjects) :
                RejoinResponse(resp, failing) =>
                    \A id \in DOMAIN projects :
                        remote_id(proj[projects[id]]) \notin resp
                            => /\ projects[id] \in DOMAIN proj'
                               /\ proj'[projects[id]] = proj[projects[id]]]_vars

\* A response has restored one of two tracked projects of the request: the
\* one left unmarked got its project id before the marked one and is still
\* tracked, so the request carried it too.
C6_Witness ==
    /\ spc = "rejoin_ok"
    /\ \E a, b \in DOMAIN projects :
          /\ rjResponse = {remote_id(proj[projects[a]])}
          /\ remote_id(proj[projects[b]]) < remote_id(proj[projects[a]])
          /\ proj[projects[a]].reshared
          /\ ~proj[projects[b]].reshared

\* C7, as claimed: after a start that read Connected, a changed status that
\* is Connected has gone from connected to disconnected and back; when
\* `projects` is not empty, maintain_connection has not ended with an error
\* while such a status waits to be taken, and the step that takes it sends
\* exactly one ReconnectDevServer, whose reshared_projects has one entry for
\* each key of `projects`, carrying the project id of that project.
C7_OneResyncPerReconnect ==
    /\ []((/\ firstConnected
           /\ unseen
           /\ is_connected(status)
           /\ DOMAIN projects # {}) => spc # "err")
    /\ [][(/\ spc # "init"
           /\ firstConnected
           /\ unseen /\ ~unseen'
           /\ is_connected(status)
           /\ DOMAIN projects # {})
             => /\ resyncSent' = resyncSent + 1
                /\ spc' = "rejoin"
                /\ Len(rjRequest') = Cardinality(DOMAIN projects)
                /\ Range(rjRequest') =
                      {proj[projects[id]].pid : id \in DOMAIN projects}
                /\ 0 \notin Range(rjRequest')]_vars

\* ========================= lifecycle (SpecLife) =========================
\* C11 (a failed connect at startup is fatal): when authenticate_and_connect
\* has returned an error the task that called it has called cx.quit(), and
\* when it has returned Ok, or has not returned, that task has not.
C11_ConnectFatal ==
    /\ connectPc = "failed" => "connect" \in quit
    /\ connectPc \in {"pending", "ok"} => "connect" \notin quit

\* The connect failed, nothing else asked to quit, and the application is
\* shutting down.
C11_Witness ==
    connectPc = "failed" /\ quit = {"connect"} /\ shutdownSent

\* C12, as claimed: once a ReconnectDevServer request has failed, a status
\* that has become Connected and waits to be received, with the DevServer
\* alive and the status channel open, leads to a new ReconnectDevServer
\* unless the status, the DevServer or the channel goes first.
C12_ResyncAfterFailure ==
    [](spc = "rejoin_err" =>
         []((/\ unseen
             /\ is_connected(status)
             /\ alive
             /\ streamOpen
             /\ resyncSent < MaxResyncs)
               => <>(\/ spc = "rejoin"
                     \/ ~is_connected(status)
                     \/ ~alive
                     \/ ~streamOpen)))

\* C13 (one resync at a time): while the task of rejoin awaits the answer,
\* maintain_connection takes no status from the channel and no
\* ReconnectDevServer is sent; one is sent only from the recv of the loop,
\* reached at the start or when the task of rejoin has ended.
C13_OneResyncInFlight ==
    [][/\ spc = "rejoin" =>
             /\ resyncSent' = resyncSent
             /\ unseen => unseen'
       /\ resyncSent' # resyncSent => spc \in {"loop", "rejoin_ok"}]_vars

\* The second ReconnectDevServer awaits its answer while a newer status waits
\* in the channel.
C13_Witness ==
    resyncSent = 2 /\ spc = "rejoin" /\ unseen

\* C17 (clean termination): a status received in the loop when no handle to
\* the DevServer is left (the application has dropped its own, and the turn
\* of the loop that awaited rejoin has ended) ends maintain_connection with Ok
\* and sends nothing; so does the None of the closed channel;
\* maintain_connection ends with an error only after a failed rejoin, is
\* cancelled only by the release of the DevServer, and once ended it stays so
\* and sends nothing.
C17_CleanStop ==
    [][/\ (/\ spc \in {"loop", "rejoin_ok"}
           /\ unseen /\ ~owned
           /\ spc' \notin {spc, "cancelled"})
             => spc' = "done" /\ ~unseen' /\ resyncSent' = resyncSent
       /\ (/\ spc \in {"loop", "rejoin_ok"}
           /\ ~unseen /\ ~streamOpen
           /\ spc' \notin {spc, "cancelled"})
             => spc' = "done" /\ resyncSent' = resyncSent
       /\ (spc' = "done" /\ spc # "done")
             => (unseen /\ ~owned) \/ ~streamOpen
       /\ (spc' = "err" /\ spc # "err") => spc = "rejoin_err"
       /\ (spc' = "cancelled" /\ spc # "cancelled")
             => alive /\ ~alive' /\ ~owned'
       /\ spc \in {"done", "err", "cancelled"}
             => spc' = spc /\ resyncSent' = resyncSent]_vars

\* maintain_connection has ended on a Connected status that it received after
\* a rejoin during which the application dropped the DevServer, without
\* sending another ReconnectDevServer, and the DevServer is not yet released.
C17_Witness ==
    /\ spc = "done"
    /\ ~owned
    /\ alive
    /\ streamOpen
    /\ ~unseen
    /\ is_connected(status)
    /\ resyncSent = 1

\* ================ the tracked map (SpecPush, SpecUnshare) ================
\* C15 (every tracked project is shared): each value of `projects` is a
\* project that is shared under a project id handed out by the server; a key
\* gets a value only in the step that takes the Ok answer to the
\* ShareRemoteProject for it, and the value is the project just marked shared.
C15_TrackedAreShared ==
    /\ [](\A id \in DOMAIN projects :
            /\ projects[id] \in DOMAIN proj
            /\ proj[projects[id]].st = "shared"
            /\ remote_id(proj[projects[id]]) \in 1..(nextPid - 1))
    /\ [][\A id \in DOMAIN projects' :
            (id \notin DOMAIN projects \/ projects'[id] # projects[id]) =>
                \E k \in DOMAIN passes :
                    /\ passes[k].pc = "rpc"
                    /\ passes[k].added[passes[k].idx] = id
                    /\ projects'[id] = passes[k].cur
                    /\ proj[passes[k].cur].st = "local"
                    /\ remote_id(proj'[passes[k].cur]) = nextPid]_vars

\* Two projects are tracked after a pass that has also unshared one.
C15_Witness ==
    /\ Cardinality(DOMAIN projects) = 2
    /\ \E k \in DOMAIN passes :
          passes[k].pc = "ok" /\ passes[k].unshares # {}

\* C16, as claimed: no project was dropped while shared, and every project
\* that is shared is a value of `projects`.
C16_NoOrphan ==
    /\ orphans = 0
    /\ \A h \in DOMAIN proj : proj[h].st = "shared" => h \in Range(projects)

\* C19 (removing an absent id): unshare_project of an id that is not a key of
\* `projects` returns Ok and changes nothing, whatever Project::unshare would
\* do; the removals of a pass none of whose ids is tracked return Ok and
\* change nothing; removals that return Ok have taken out exactly the ids
\* that were tracked and left every other tracked project as it was; and
\* removals return an error only when an id they name was tracked.
C19_AbsentIsNoop ==
    /\ [](\A id \in Ids \ DOMAIN projects : \A fails \in BOOLEAN :
            unshare_project([projects |-> projects, proj |-> proj,
                             ok |-> TRUE], id, fails)
                = [projects |-> projects, proj |-> proj, ok |-> TRUE])
    /\ [][\A k \in DOMAIN passes :
            (passes[k].pc = "loop" /\ AddsDone(passes[k])) =>
                /\ passes[k].removed \cap DOMAIN projects = {} =>
                      /\ passes'[1].pc = "ok"
                      /\ projects' = projects
                      /\ proj' = proj
                /\ passes'[1].pc = "ok" =>
                      /\ passes'[1].unshares
                            = passes[k].removed \cap DOMAIN projects
                      /\ DOMAIN projects'
                            = (DOMAIN projects) \ passes[k].removed
                      /\ \A id \in DOMAIN projects' :
                            /\ projects'[id] = projects[id]
                            /\ proj'[projects[id]] = proj[projects[id]]
                /\ passes'[1].pc = "err" =>
                      /\ passes'[1].unshares # {}
                      /\ passes'[1].unshares \subseteq passes[k].removed]_vars

\* A pass has returned Ok after removals that named a tracked id and an id
\* that was not tracked, and a project is still tracked.
C19_Witness ==
    /\ passes[1].pc = "ok"
    /\ passes[1].unshares # {}
    /\ passes[1].removed \ passes[1].unshares # {}
    /\ projects # EmptyMap

\* ==================== rejoin and the pushes (Spec) ====================
\* C14, as claimed: a project that the answer to ReconnectDevServer marks
\* reshared is a value of `projects` when it is marked.
C14_MarkedOnlyIfTracked ==
    [][(spc = "rejoin" /\ spc' = "rejoin_ok") =>
       \A resp \in Responses :
          \A failing \in SUBSET (resp \cap DOMAIN rjProjects) :
             RejoinResponse(resp, failing) =>
                 \A p \in Marked(rjProjects, resp, failing) :
                     rjProjects[p] \in Range(projects)]_vars

\* C18 (a failing project is skipped): the answer to ReconnectDevServer ends
\* the task of rejoin with Ok whichever calls of Project::reshared fail; the
\* failures are logged, the projects they were for are left as they were, and
\* every other project of the request that the answer lists is marked.
C18_FailureSkipped ==
    [][(spc = "rejoin" /\ spc' = "rejoin_ok") =>
       \A resp \in Responses :
          \A failing \in SUBSET (resp \cap DOMAIN rjProjects) :
             RejoinResponse(resp, failing) =>
                 /\ spc' = "rejoin_ok"
                 /\ rjLogged' = failing
                 /\ \A p \in failing :
                       rjProjects[p] \in DOMAIN proj' =>
                           proj'[rjProjects[p]] = proj[rjProjects[p]]
                 /\ \A p \in (resp \cap DOMAIN rjProjects) \ failing :
                       rjProjects[p] \in DOMAIN proj' =>
                           proj'[rjProjects[p]].reshared]_vars

\* The answer listed two tracked projects of the request; the call for the
\* one with the smaller project id failed and the other is marked reshared.
C18_Witness ==
    /\ spc = "rejoin_ok"
    /\ \E a, b \in DOMAIN projects :
          /\ remote_id(proj[projects[a]]) \in rjLogged
          /\ remote_id(proj[projects[b]]) \in rjResponse \ rjLogged
          /\ remote_id(proj[projects[a]]) < remote_id(proj[projects[b]])
          /\ ~proj[projects[a]].reshared
          /\ proj[projects[b]].reshared

\* C20 (entries are matched by the project id of the request): the answer
\* changes only projects that the local map of rejoin holds under an id the
\* answer lists; an answer none of whose ids is in that map changes no
\* project and not the tracked map, logs nothing and ends the task of rejoin
\* with Ok.
C20_OnlyMatching ==
    [][(spc = "rejoin" /\ spc' = "rejoin_ok") =>
       \A resp \in Responses :
          \A failing \in SUBSET (resp \cap DOMAIN rjProjects) :
             RejoinResponse(resp, failing) =>
                 /\ \A h \in DOMAIN proj' :
                       proj'[h] # proj[h] =>
                           \E p \in resp \cap DOMAIN rjProjects :
                               rjProjects[p] = h
                 /\ resp \cap DOMAIN rjProjects = {} =>
                       /\ \A h \in DOMAIN proj' : proj'[h] = proj[h]
                       /\ projects' = projects
                       /\ rjLogged' = {}
                       /\ spc' = "rejoin_ok"]_vars

\* The answer listed only an id the server had not handed out before, which
\* no request can have carried: neither tracked project is marked reshared.
C20_Witness ==
    /\ spc = "rejoin_ok"
    /\ rjResponse = {nextPid}
    /\ rjLogged = {}
    /\ Cardinality(DOMAIN projects) = 2
    /\ \A id \in DOMAIN projects : ~proj[projects[id]].reshared
====
